---- MODULE Spec2Model ----
(***************************************************************************)
(* Leave-accrual engine of the attendance application                      *)
(* (src/attendance/views.py, src/attendance/models.py).                    *)
(*                                                                         *)
(* Dates are triples <<year, month, day>>; an unset date (Python None) is  *)
(* the empty tuple.  FloatField day counts are always multiples of 0.5 and *)
(* are held exactly as a number of half days.                              *)
(***************************************************************************)
EXTENDS Integers, Sequences, FiniteSets, TLC

VARIABLES
    today,      \* timezone.localdate(), views.py:191
    join_date,  \* CustomUser.join_date of every user, models.py:10
    requests,   \* the LeaveRequest table: id -> row, models.py:26-37
    steps,      \* the LeaveApprovalStep rows of every request, by order,
                \* models.py:59-70
    next_id,    \* the next primary key of the LeaveRequest table
    subject,    \* the user of the last _leave_summary_for_user call
    outcome,    \* "idle", or how that call ended: "returned" or "raised"
    segment,    \* its local segment, views.py:193
    summary,    \* the dict it returned, views.py:199-207
    balances,   \* the LeaveBalance table: user -> row, models.py:13-16
    util,       \* the last direct call of a utility, signal sender or
                \* management command, and its result
    posts,      \* the POSTs of leave_approval_list in flight: worker ->
                \* position and the objects it loaded, views.py:637-663
    accounts    \* the auth user table: username -> flags, password and
                \* groups, signals.py:18-37, ensure_default_admin.py

vars == <<today, join_date, requests, steps, next_id,
          subject, outcome, segment, summary, balances, util,
          posts, accounts>>

(***************************************************************************)
(* Bounds of the model                                                     *)
(***************************************************************************)
\* number of calendar years the day-by-day clock of SpecAccrual runs through
ClockYears == 3
\* number of leave requests ever created in one behaviour of Spec
MaxRequests == 2

\* first day of the day-by-day clock
FirstDay == <<2022, 1, 1>>
\* years from which hire dates are drawn
HireYears == {2015, 2019, 2020, 2021, 2022, 2023, 2024, 2025}
\* days of the month from which hire dates are drawn (clipped to valid dates)
HireDays == {1, 15, 28, 29, 30, 31}

Users == {"u1", "u2"}

(***************************************************************************)
(* datetime.date                                                           *)
(***************************************************************************)
NoDate == <<>>

IsLeap(y) == (y % 4 = 0) /\ ((y % 100 # 0) \/ (y % 400 = 0))

DaysInMonth(y, m) ==
    IF m = 2 THEN (IF IsLeap(y) THEN 29 ELSE 28)
    ELSE IF m \in {4, 6, 9, 11} THEN 30 ELSE 31

ValidDate(d) ==
    /\ d[2] \in 1..12
    /\ d[3] \in 1..DaysInMonth(d[1], d[2])

\* a < b on dates
DateLT(a, b) ==
    \/ a[1] < b[1]
    \/ a[1] = b[1] /\ a[2] < b[2]
    \/ a[1] = b[1] /\ a[2] = b[2] /\ a[3] < b[3]

DateLE(a, b) == a = b \/ DateLT(a, b)

DateMin(a, b) == IF DateLT(b, a) THEN b ELSE a

\* d - timedelta(days=1)
MinusOneDay(d) ==
    IF d[3] > 1 THEN <<d[1], d[2], d[3] - 1>>
    ELSE IF d[2] > 1 THEN <<d[1], d[2] - 1, DaysInMonth(d[1], d[2] - 1)>>
    ELSE <<d[1] - 1, 12, 31>>

\* d + timedelta(days=1)
PlusOneDay(d) ==
    IF d[3] < DaysInMonth(d[1], d[2]) THEN <<d[1], d[2], d[3] + 1>>
    ELSE IF d[2] < 12 THEN <<d[1], d[2] + 1, 1>>
    ELSE <<d[1] + 1, 1, 1>>

RECURSIVE DaysBeforeMonth(_, _)
DaysBeforeMonth(y, m) ==
    IF m = 1 THEN 0 ELSE DaysBeforeMonth(y, m - 1) + DaysInMonth(y, m - 1)

\* date.toordinal(): 0001-01-01 is day 1
ToOrdinal(d) ==
    LET y == d[1] - 1
    IN  y * 365 + (y \div 4) - (y \div 100) + (y \div 400)
        + DaysBeforeMonth(d[1], d[2]) + d[3]

\* (a - b).days
DaysBetween(a, b) == ToOrdinal(a) - ToOrdinal(b)

\* date.weekday(): Monday is 0
Weekday(d) == (ToOrdinal(d) + 6) % 7

\* date.replace(year=y) raises ValueError when the day does not exist
ReplaceYearRaises(d, y) == ~ValidDate(<<y, d[2], d[3]>>)

ReplaceYear(d, y) == <<y, d[2], d[3]>>

Min(a, b) == IF a < b THEN a ELSE b

Max(a, b) == IF a > b THEN a ELSE b

(***************************************************************************)
(* Calendar utilities of views.py                                          *)
(***************************************************************************)
\* mutant of round_half_up: exact halves go to the even neighbour
round_half_up_to_even(num, den) ==
    LET up == (2 * num + den) \div (2 * den)
    IN  IF (2 * num + den) % (2 * den) = 0 /\ up % 2 = 1 THEN up - 1 ELSE up

\* mutant of round_half_up: truncation instead of rounding half up
round_half_up_truncating(num, den) == num \div den

\* mutant of round_half_up: every fraction is rounded up
round_half_up_ceiling(num, den) == (num + den - 1) \div den

\* math.floor(value + 0.5) for the rational value num/den, den > 0
round_half_up(num, den) == (2 * num + den) \div (2 * den)

\* math.floor(value) for the rational value num/den, den > 0
math_floor(num, den) == num \div den

last_day_of_month(year, month) ==
    IF month = 12 THEN 31
    ELSE MinusOneDay(<<year, month + 1, 1>>)[3]

\* mutant of completed_months: the day of the month must pass the start day
completed_months_strict(start_date, limit_date) ==
    IF DateLT(limit_date, start_date) THEN 0
    ELSE LET months0 == (limit_date[1] - start_date[1]) * 12
                        + (limit_date[2] - start_date[2])
             months  == IF limit_date[3] <= start_date[3]
                        THEN months0 - 1 ELSE months0
         IN  Max(months, 0)

\* mutant of completed_months: a start day the last month does not have
\* counts as reached on that month's last day
completed_months_anchored(start_date, limit_date) ==
    IF DateLT(limit_date, start_date) THEN 0
    ELSE LET months0 == (limit_date[1] - start_date[1]) * 12
                        + (limit_date[2] - start_date[2])
             anchor  == Min(start_date[3],
                            DaysInMonth(limit_date[1], limit_date[2]))
             months  == IF limit_date[3] < anchor
                        THEN months0 - 1 ELSE months0
         IN  Max(months, 0)

\* mutant of completed_months: an incomplete last month is counted
completed_months_started(start_date, limit_date) ==
    IF DateLT(limit_date, start_date) THEN 0
    ELSE Max((limit_date[1] - start_date[1]) * 12
             + (limit_date[2] - start_date[2]), 0)

completed_months(start_date, limit_date) ==
    IF DateLT(limit_date, start_date) THEN 0
    ELSE LET months0 == (limit_date[1] - start_date[1]) * 12
                        + (limit_date[2] - start_date[2])
             months  == IF limit_date[3] < start_date[3]
                        THEN months0 - 1 ELSE months0
         IN  Max(months, 0)

\* mutant of service_year: the day of the month is not compared
service_year_ignoring_day(jd, t) ==
    IF DateLT(t, jd) THEN 0
    ELSE LET months == (t[1] - jd[1]) * 12 + (t[2] - jd[2])
         IN  (months \div 12) + 1

\* _service_year: 1-based service year from completed months, 0 before hire
service_year(jd, t) ==
    IF DateLT(t, jd) THEN 0
    ELSE LET months0 == (t[1] - jd[1]) * 12 + (t[2] - jd[2])
             months  == IF t[3] < jd[3] THEN months0 - 1 ELSE months0
         IN  (months \div 12) + 1

(***************************************************************************)
(* Segment resolver                                                        *)
(***************************************************************************)
NoSegment == [type |-> "None"]

RaisedSegment == [type |-> "ValueError"]

\* mutant of no_current_segment: a hire date in the future is not checked
no_current_segment_unset_only(jd, t) == jd = NoDate

\* the guard "not join_date or join_date > today"
no_current_segment(jd, t) == jd = NoDate \/ DateLT(t, jd)

\* mutant of in_anniversary_year: every year from the anniversary's on
in_anniversary_year_or_later(t, first_anniv) == t[1] >= first_anniv[1]

\* the year-two range check "today.year == first_anniv.year"
in_anniversary_year(t, first_anniv) == t[1] = first_anniv[1]

\* mutant of segment_service_year: the service year counted in full years
segment_service_year_full_years(jd, t) == service_year(jd, t)

\* the service year that sizes the annual grant
segment_service_year(jd, t) == (t[1] - jd[1]) + 1

current_leave_segment(jd, t) ==
    IF no_current_segment(jd, t) THEN NoSegment
    ELSE IF ReplaceYearRaises(jd, jd[1] + 1) THEN RaisedSegment
    ELSE
      LET replaced == ReplaceYear(jd, jd[1] + 1)
          first_anniv == <<replaced[1], replaced[2],
                           Min(replaced[3],
                               last_day_of_month(replaced[1], replaced[2]))>>
          first_year_end == MinusOneDay(first_anniv)
      IN  IF DateLE(t, first_year_end)
          THEN [type |-> "year1_monthly", start |-> jd,
                end |-> first_year_end, start_month |-> jd[2]]
          ELSE IF in_anniversary_year(t, first_anniv)
          THEN [type |-> "year2_partial_monthly", start |-> first_anniv,
                end |-> <<first_anniv[1], 12, 31>>,
                start_month |-> first_anniv[2]]
          ELSE IF t[1] = first_anniv[1] + 1
          THEN [type |-> "year3_prorated_calendar", start |-> <<t[1], 1, 1>>,
                end |-> <<t[1], 12, 31>>, round_half_up |-> TRUE]
          ELSE LET sy == segment_service_year(jd, t)
               IN  [type |-> "annual", start |-> <<t[1], 1, 1>>,
                    end |-> <<t[1], 12, 31>>,
                    annual_days |-> 15 + (sy - 3),
                    round_half_up |-> FALSE]

(***************************************************************************)
(* Earned-leave calculator                                                 *)
(***************************************************************************)
calculate_earned_leave(jd, t, sg) ==
    IF jd = NoDate \/ DateLT(t, jd) THEN 0
    ELSE
      LET seg == IF sg # NoSegment THEN sg ELSE current_leave_segment(jd, t)
      IN  IF seg = NoSegment THEN 0
          ELSE IF seg.type \in {"year1_monthly", "year2_partial_monthly"}
          THEN completed_months(seg.start, DateMin(t, seg.end))
          ELSE IF seg.type = "year3_prorated_calendar"
          THEN LET days_employed == DaysBetween(t, seg.start) + 1
               IN  IF seg.round_half_up
                   THEN round_half_up(days_employed * 15, 365)
                   ELSE math_floor(days_employed * 15, 365)
          ELSE IF seg.type = "annual"
          THEN (IF DateLT(t, seg.start) THEN 0 ELSE seg.annual_days)
          ELSE 0

(***************************************************************************)
(* LeaveRequest and LeaveApprovalStep (models.py)                          *)
(***************************************************************************)
\* the four leave kinds, romanised: annual, half-day, sick, other
LEAVE_TYPES == {"yeoncha", "bancha", "byeongga", "gita"}

STATUS_CHOICES == {"pending", "approved", "rejected"}

\* days IS NULL
NoDays == -1

\* the half-day leave kind is stored as 0.5 day: one half day
HalfDay == 1

\* float(n) whole days, in half days
FloatDays(n) == 2 * n

\* the while loop of LeaveRequest.save: Monday-to-Friday dates in [cur, last]
RECURSIVE WeekdayCount(_, _)
WeekdayCount(cur, last) ==
    IF DateLT(last, cur) THEN 0
    ELSE (IF Weekday(cur) < 5 THEN 1 ELSE 0)
         + WeekdayCount(PlusOneDay(cur), last)

\* mutant of LeaveRequest_save: calendar days from start to end
LeaveRequest_save_calendar_days(r) ==
    IF r.start_date # NoDate /\ r.end_date # NoDate
    THEN IF r.leave_type = "bancha"
         THEN [r EXCEPT !.days = HalfDay]
         ELSE [r EXCEPT !.days =
                  FloatDays(DaysBetween(r.end_date, r.start_date) + 1)]
    ELSE r

LeaveRequest_save(r) ==
    IF r.start_date # NoDate /\ r.end_date # NoDate
    THEN IF r.leave_type = "bancha"
         THEN [r EXCEPT !.days = HalfDay]
         ELSE [r EXCEPT !.days = FloatDays(WeekdayCount(r.start_date, r.end_date))]
    ELSE r

(***************************************************************************)
(* Used-leave aggregator                                                   *)
(***************************************************************************)
RECURSIVE SumDays(_, _)
\* aggregate(Sum('days')) over the rows ids of the table reqs
SumDays(reqs, ids) ==
    IF ids = {} THEN 0
    ELSE LET i == CHOOSE x \in ids : TRUE
         IN  reqs[i].days + SumDays(reqs, ids \ {i})

\* mutant of starts_in_window: every request that overlaps the window
starts_in_window_overlapping(r, sg) ==
    /\ DateLE(r.start_date, sg.end)
    /\ DateLE(sg.start, r.end_date)

\* the filter start_date__gte=start, start_date__lte=end
starts_in_window(r, sg) ==
    /\ DateLE(sg.start, r.start_date)
    /\ DateLE(r.start_date, sg.end)

\* mutant of calculate_used_leave: every request not rejected is counted
calculate_used_leave_not_rejected(reqs, user, sg) ==
    IF sg = NoSegment THEN 0
    ELSE LET matching == {i \in DOMAIN reqs :
                             /\ reqs[i].user = user
                             /\ reqs[i].status # "rejected"
                             /\ starts_in_window(reqs[i], sg)
                             /\ reqs[i].days # NoDays}
         IN  SumDays(reqs, matching)

calculate_used_leave(reqs, user, sg) ==
    IF sg = NoSegment THEN 0
    ELSE LET matching == {i \in DOMAIN reqs :
                             /\ reqs[i].user = user
                             /\ reqs[i].status = "approved"
                             /\ starts_in_window(reqs[i], sg)
                             /\ reqs[i].days # NoDays}
         IN  SumDays(reqs, matching)

(***************************************************************************)
(* Leave summary facade                                                    *)
(***************************************************************************)
NoSummary == [earned |-> 0, used |-> 0, remaining |-> 0,
              missing_join_date |-> FALSE, join_date |-> NoDate,
              usage_rate |-> <<0, 1>>, reset_date |-> NoDate]

\* mutant of remaining: a negative balance is clamped to zero
remaining_clamped(earned, used) == Max(FloatDays(earned) - used, 0)

\* remaining = earned - used, in half days
remaining(earned, used) == FloatDays(earned) - used

\* mutant of usage_rate: the rate is capped at 100
usage_rate_capped(earned, used) ==
    IF earned > 0
    THEN (IF used > FloatDays(earned) THEN <<100, 1>>
          ELSE <<used * 100, FloatDays(earned)>>)
    ELSE <<0, 1>>

\* usage_rate = (used / earned * 100) if earned > 0 else 0, as a fraction
usage_rate(earned, used) ==
    IF earned > 0 THEN <<used * 100, FloatDays(earned)>> ELSE <<0, 1>>

\* earned is in days, used and remaining in half days,
\* usage_rate is the fraction <<numerator, denominator>>
summary_dict(reqs, user, jd, t) ==
    LET sg        == current_leave_segment(jd, t)
        earned    == IF sg # NoSegment
                     THEN calculate_earned_leave(jd, t, sg) ELSE 0
        used      == calculate_used_leave(reqs, user, sg)
        reset     == IF sg # NoSegment THEN sg.end ELSE NoDate
    IN  [earned |-> earned, used |-> used,
         remaining |-> remaining(earned, used),
         missing_join_date |-> (jd = NoDate), join_date |-> jd,
         usage_rate |-> usage_rate(earned, used), reset_date |-> reset]

(***************************************************************************)
(* LeaveBalance (models.py) and the rows signals.py creates with each user *)
(***************************************************************************)
\* LeaveBalance defaults: total_leave 15 days, used_leave 0, in half days
DefaultBalance == [total_leave |-> FloatDays(15), used_leave |-> 0]

\* create_user_leave_balance: one row for every user
DefaultBalances == [u \in Users |-> DefaultBalance]

\* the workers that serve requests side by side
Workers == {"w1", "w2"}

\* a worker that serves no POST of the approval view
NoPost == [pc |-> "idle", user |-> "nobody", id |-> 0, order |-> 0,
           action |-> "none",
           step_status |-> "pending", leave_status |-> "pending"]

NoPosts == [w \in Workers |-> NoPost]

\* the admin group of signals.py
ADMIN_GROUP_NAME == "gwanrija"

\* the password column: the raw password a hash was made from and the salt
\* of the hash, a new one with every set_password
NoPassword == [plain |-> "", salt |-> 0]

\* a user row as create_user leaves it: no groups, no flags
PlainAccount == [is_staff |-> FALSE, is_superuser |-> FALSE,
                 password |-> NoPassword, email |-> "", groups |-> {}]

DefaultAccounts == [u \in Users |-> PlainAccount]

\* no calendar utility has been called directly
NoCall == [fn |-> "none", args |-> <<>>, result |-> 0]

\* no request is being served: the locals of the last call are gone
Idle ==
    /\ subject' = "nobody"
    /\ outcome' = "idle"
    /\ segment' = NoSegment
    /\ summary' = NoSummary

\* _leave_summary_for_user(u), as called by dashboard and management_overview
leave_summary_for_user(u) ==
    /\ subject' = u
    /\ segment' = current_leave_segment(join_date[u], today)
    /\ IF segment' = RaisedSegment
       THEN /\ outcome' = "raised"
            /\ summary' = NoSummary
       ELSE /\ outcome' = "returned"
            /\ summary' = summary_dict(requests, u, join_date[u], today)
    /\ UNCHANGED <<today, join_date, requests, steps, next_id, balances, util,
                   posts, accounts>>

(***************************************************************************)
(* The clock: timezone.localdate() moves on by one day                     *)
(***************************************************************************)
LastDay == <<FirstDay[1] + ClockYears - 1, 12, 31>>

Tick ==
    /\ DateLT(today, LastDay)
    /\ today' = PlusOneDay(today)
    /\ Idle
    /\ UNCHANGED <<join_date, requests, steps, next_id, balances, util,
                   posts, accounts>>

(***************************************************************************)
(* Leave request workflow (views.py)                                       *)
(***************************************************************************)
\* members of the leave approver groups: offered as approvers by LeaveForm
\* and admitted to the approval view
LeaveApprovers == Users

\* LeaveForm submissions; "" is an approver field left empty
LeaveForms ==
    { [leave_type |-> "byeongga", start_date |-> <<2023, 2, 15>>,
       end_date |-> <<2023, 2, 17>>,
       approver1 |-> "", approver2 |-> "u2", approver3 |-> "u1"],
      [leave_type |-> "bancha", start_date |-> <<2023, 2, 15>>,
       end_date |-> <<2023, 2, 15>>,
       approver1 |-> "u2", approver2 |-> "", approver3 |-> ""],
      [leave_type |-> "gita", start_date |-> <<2024, 1, 12>>,
       end_date |-> <<2024, 1, 15>>,
       approver1 |-> "u1", approver2 |-> "", approver3 |-> ""],
      [leave_type |-> "yeoncha", start_date |-> <<2023, 2, 15>>,
       end_date |-> <<2023, 2, 15>>,
       approver1 |-> "", approver2 |-> "", approver3 |-> ""],
      [leave_type |-> "yeoncha", start_date |-> <<2023, 2, 15>>,
       end_date |-> <<2023, 2, 15>>,
       approver1 |-> "u2", approver2 |-> "u2", approver3 |-> ""] }

Chosen(a) == a # ""

\* approvers = [a for a in (approver1, approver2, approver3) if a]
FormApprovers(form) ==
    SelectSeq(<<form.approver1, form.approver2, form.approver3>>, Chosen)

SeqRange(s) == {s[i] : i \in 1..Len(s)}

\* LeaveForm.clean
LeaveForm_is_valid(form) ==
    LET approvers == FormApprovers(form)
    IN  /\ form.leave_type \in LEAVE_TYPES
        /\ SeqRange(approvers) \subseteq LeaveApprovers
        /\ approvers # <<>>
        /\ Cardinality(SeqRange(approvers)) = Len(approvers)

leave_create(u, form) ==
    /\ next_id <= MaxRequests
    /\ IF LeaveForm_is_valid(form)
       THEN LET approvers == FormApprovers(form)
                leave_req == LeaveRequest_save(
                    [user |-> u, start_date |-> form.start_date,
                     end_date |-> form.end_date,
                     leave_type |-> form.leave_type,
                     status |-> "pending", days |-> NoDays])
            IN  /\ requests' = requests @@ (next_id :> leave_req)
                /\ steps' = steps @@ (next_id :>
                       [i \in 1..Len(approvers) |->
                           [approver |-> approvers[i], order |-> i,
                            status |-> "pending"]])
                /\ next_id' = next_id + 1
       ELSE UNCHANGED <<requests, steps, next_id>>
    /\ Idle
    /\ UNCHANGED <<today, join_date, balances, util,
                   posts, accounts>>

\* mutant of already_processed: only the step's own status is checked
already_processed_step_only(leave, step) == step.status # "pending"

\* the guard "leave.status != 'pending' or step.status != 'pending'"
already_processed(leave, step) ==
    leave.status # "pending" \/ step.status # "pending"

\* mutant of prior_exists: the earlier steps are not looked at
prior_exists_unchecked(leave_steps, ord) == FALSE

\* approval_steps.filter(order__lt=step.order).exclude(status='approved')
\*    .exists()
prior_exists(leave_steps, ord) ==
    \E k \in DOMAIN leave_steps :
       leave_steps[k].order < ord /\ leave_steps[k].status # "approved"

\* mutant of remaining_pending: the other steps are not waited for
remaining_pending_ignored(leave_steps) == FALSE

\* leave.approval_steps.filter(status='pending').exists()
remaining_pending(leave_steps) ==
    \E k \in DOMAIN leave_steps : leave_steps[k].status = "pending"

\* the POST branch of leave_approval_list
leave_approval_list(u, id, ord, action) ==
    /\ u \in LeaveApprovers
    /\ id \in DOMAIN steps
    /\ ord \in DOMAIN steps[id]
    /\ steps[id][ord].approver = u
    /\ LET step  == steps[id][ord]
           leave == requests[id]
       IN  IF already_processed(leave, step)
           THEN UNCHANGED <<requests, steps>>
           ELSE IF prior_exists(steps[id], step.order)
           THEN UNCHANGED <<requests, steps>>
           ELSE LET step_status  == IF action = "approve" THEN "approved"
                                    ELSE IF action = "reject" THEN "rejected"
                                    ELSE step.status
                    leave1 == IF action = "reject"
                              THEN [leave EXCEPT !.status = "rejected"]
                              ELSE leave
                    saved_steps == [steps[id] EXCEPT ![ord].status = step_status]
                    leave2 == IF step_status = "approved"
                                 /\ ~remaining_pending(saved_steps)
                              THEN [leave1 EXCEPT !.status = "approved"]
                              ELSE leave1
                IN  /\ steps' = [steps EXCEPT ![id] = saved_steps]
                    /\ requests' = [requests EXCEPT
                                       ![id] = LeaveRequest_save(leave2)]
    /\ Idle
    /\ UNCHANGED <<today, join_date, next_id, balances, util,
                   posts, accounts>>

Restrict(f, S) == [x \in S |-> f[x]]

leave_delete(u, id) ==
    /\ id \in DOMAIN requests
    /\ requests[id].user = u
    /\ requests' = Restrict(requests, DOMAIN requests \ {id})
    /\ steps' = Restrict(steps, DOMAIN steps \ {id})
    /\ Idle
    /\ UNCHANGED <<today, join_date, next_id, balances, util,
                   posts, accounts>>

(***************************************************************************)
(* Specifications                                                          *)
(***************************************************************************)
TypeOK ==
    /\ ValidDate(today)
    /\ \A u \in Users : join_date[u] = NoDate \/ ValidDate(join_date[u])
    /\ DOMAIN steps = DOMAIN requests
    /\ \A i \in DOMAIN requests :
          /\ requests[i].user \in Users
          /\ requests[i].status \in STATUS_CHOICES
          /\ requests[i].leave_type \in LEAVE_TYPES
    /\ outcome \in {"idle", "resolved", "returned", "raised"}

\* hire dates of the accrual specification
HireDates ==
    {d \in HireYears \X (1..12) \X HireDays : ValidDate(d)}

\* the employee whose summary the accrual specification follows
Employee == "u1"

InitAccrual ==
    /\ today = FirstDay
    /\ \E h \in HireDates \cup {NoDate} :
          join_date = [u \in Users |-> IF u = Employee THEN h ELSE NoDate]
    /\ requests = <<>>
    /\ steps = <<>>
    /\ next_id = 1
    /\ subject = "nobody"
    /\ outcome = "idle"
    /\ segment = NoSegment
    /\ summary = NoSummary
    /\ balances = DefaultBalances
    /\ util = NoCall
    /\ posts = NoPosts
    /\ accounts = DefaultAccounts

NextAccrual ==
    \/ Tick
    \/ leave_summary_for_user(Employee)

\* the pure accrual functions over hire dates and a day-by-day clock
SpecAccrual == InitAccrual /\ [][NextAccrual]_vars

\* reference dates and hire dates of the workflow specification
RefDates == {<<2023, 2, 15>>, <<2024, 1, 15>>}

JoinProfiles ==
    { ("u1" :> <<2023, 1, 15>> @@ "u2" :> <<2023, 3, 1>>),
      ("u1" :> NoDate          @@ "u2" :> <<2023, 1, 15>>),
      ("u1" :> <<2023, 3, 1>>  @@ "u2" :> NoDate) }

\* a row stored before the days column existed: approved, days IS NULL
LegacyRequest ==
    [user |-> "u1", start_date |-> <<2023, 2, 15>>,
     end_date |-> <<2023, 2, 17>>, leave_type |-> "yeoncha",
     status |-> "approved", days |-> NoDays]

Init ==
    /\ today \in RefDates
    /\ join_date \in JoinProfiles
    /\ \/ requests = <<>> /\ steps = <<>>
       \/ requests = (0 :> LegacyRequest) /\ steps = (0 :> <<>>)
    /\ next_id = 1
    /\ subject = "nobody"
    /\ outcome = "idle"
    /\ segment = NoSegment
    /\ summary = NoSummary
    /\ balances = DefaultBalances
    /\ util = NoCall
    /\ posts = NoPosts
    /\ accounts = DefaultAccounts

PostActions == {"approve", "reject", "other"}

Next ==
    \/ \E u \in Users, form \in LeaveForms : leave_create(u, form)
    \/ \E u \in Users, id \in 0..MaxRequests, ord \in 1..3,
          action \in PostActions : leave_approval_list(u, id, ord, action)
    \/ \E u \in Users, id \in 0..MaxRequests : leave_delete(u, id)
    \/ \E u \in Users : leave_summary_for_user(u)

\* the leave workflow and the summary facade over the request store
Spec == Init /\ [][Next]_vars

(***************************************************************************)
(* The admin action approve_leaves (admin.py) and the workflow             *)
(* specification                                                           *)
(***************************************************************************)
\* balance.used_leave = current_used + leave_request.days, on the row
\* get_or_create finds or creates for the user
add_used_leave(bals, user, days) ==
    LET balance == IF user \in DOMAIN bals THEN bals[user] ELSE DefaultBalance
    IN  [u \in DOMAIN bals \cup {user} |->
            IF u = user
            THEN [balance EXCEPT !.used_leave = balance.used_leave + days]
            ELSE bals[u]]

\* mutant of already_approved: no selected row is skipped
already_approved_never(leave_request) == FALSE

\* if leave_request.status == 'approved': continue
already_approved(leave_request) == leave_request.status = "approved"

RECURSIVE approve_each(_, _, _)
\* the for loop of approve_leaves over the selected rows: <<table, balances>>
approve_each(queryset, reqs, bals) ==
    IF queryset = {} THEN <<reqs, bals>>
    ELSE LET i == CHOOSE x \in queryset : TRUE
             leave_request == reqs[i]
         IN  IF already_approved(leave_request)
             THEN approve_each(queryset \ {i}, reqs, bals)
             ELSE LET saved == LeaveRequest_save(
                                  [leave_request EXCEPT !.status = "approved"])
                      bals1 == IF saved.days # NoDays /\ saved.days > 0
                               THEN add_used_leave(bals, saved.user, saved.days)
                               ELSE bals
                  IN  approve_each(queryset \ {i},
                                   [reqs EXCEPT ![i] = saved], bals1)

approve_leaves(queryset) ==
    /\ queryset # {}
    /\ queryset \subseteq DOMAIN requests
    /\ LET done == approve_each(queryset, requests, balances)
       IN  /\ requests' = done[1]
           /\ balances' = done[2]
    /\ Idle
    /\ UNCHANGED <<today, join_date, steps, next_id, util,
                   posts, accounts>>

\* LeaveForm submissions of the workflow specification: a range over a
\* weekend, a half day over several dates, an end date before the start
\* date
WorkflowForms ==
    { [leave_type |-> "yeoncha", start_date |-> <<2023, 2, 15>>,
       end_date |-> <<2023, 2, 21>>,
       approver1 |-> "u2", approver2 |-> "u1", approver3 |-> ""],
      [leave_type |-> "bancha", start_date |-> <<2023, 2, 15>>,
       end_date |-> <<2023, 2, 17>>,
       approver1 |-> "", approver2 |-> "", approver3 |-> "u2"],
      [leave_type |-> "byeongga", start_date |-> <<2023, 2, 17>>,
       end_date |-> <<2023, 2, 15>>,
       approver1 |-> "u2", approver2 |-> "", approver3 |-> ""] }

\* reference dates of the workflow specification
WorkflowDates == {<<2023, 2, 14>>, <<2023, 2, 15>>}

InitWorkflow ==
    /\ today \in WorkflowDates
    /\ join_date = [u \in Users |->
                       IF u = Employee THEN <<2023, 1, 15>> ELSE NoDate]
    /\ requests = <<>>
    /\ steps = <<>>
    /\ next_id = 1
    /\ subject = "nobody"
    /\ outcome = "idle"
    /\ segment = NoSegment
    /\ summary = NoSummary
    /\ balances = DefaultBalances
    /\ util = NoCall
    /\ posts = NoPosts
    /\ accounts = DefaultAccounts

NextWorkflow ==
    \/ \E form \in WorkflowForms : leave_create(Employee, form)
    \/ \E u \in Users, id \in 1..MaxRequests, ord \in 1..3,
          action \in PostActions : leave_approval_list(u, id, ord, action)
    \/ \E u \in Users, id \in 1..MaxRequests : leave_delete(u, id)
    \/ \E queryset \in SUBSET (1..MaxRequests) : approve_leaves(queryset)
    \/ \E u \in Users : leave_summary_for_user(u)

\* the leave workflow with the admin action, over requests of one employee
SpecWorkflow == InitWorkflow /\ [][NextWorkflow]_vars

(***************************************************************************)
(* Requests served side by side: the summary facade and the POST branch of *)
(* leave_approval_list, each cut at its database statements                *)
(***************************************************************************)
\* views.py:191-194: today, join_dt, segment and earned, before any query
summary_begin(u) ==
    /\ outcome = "idle"
    /\ subject' = u
    /\ segment' = current_leave_segment(join_date[u], today)
    /\ IF segment' = RaisedSegment
       THEN /\ outcome' = "raised"
            /\ summary' = NoSummary
       ELSE /\ outcome' = "resolved"
            /\ summary' = [NoSummary EXCEPT
                  !.earned = IF segment' # NoSegment
                             THEN calculate_earned_leave(join_date[u], today,
                                                         segment')
                             ELSE 0]
    /\ UNCHANGED <<today, join_date, requests, steps, next_id, balances,
                   util, posts, accounts>>

\* views.py:195-207: the aggregate query over the store as it is now, and
\* the returned dict
summary_query ==
    /\ outcome = "resolved"
    /\ LET jd     == join_date[subject]
           earned == summary.earned
           used   == calculate_used_leave(requests, subject, segment)
       IN  summary' = [earned |-> earned, used |-> used,
                       remaining |-> remaining(earned, used),
                       missing_join_date |-> (jd = NoDate), join_date |-> jd,
                       usage_rate |-> usage_rate(earned, used),
                       reset_date |-> IF segment # NoSegment
                                      THEN segment.end ELSE NoDate]
    /\ outcome' = "returned"
    /\ UNCHANGED <<today, join_date, requests, steps, next_id, balances,
                   util, posts, accounts, subject, segment>>

\* views.py:638-656: the step and its request are loaded, the two guards
\* are evaluated and the decision is set on the loaded objects
post_load(w, u, id, ord, action) ==
    /\ posts[w].pc = "idle"
    /\ LET found == /\ id \in DOMAIN steps
                    /\ ord \in DOMAIN steps[id]
                    /\ steps[id][ord].approver = u
           post  == [NoPost EXCEPT !.user = u, !.id = id, !.order = ord,
                                   !.action = action]
       IN  IF u \notin LeaveApprovers
           THEN posts' = [posts EXCEPT ![w] = [post EXCEPT !.pc = "forbidden"]]
           ELSE IF ~found
           THEN posts' = [posts EXCEPT ![w] = [post EXCEPT !.pc = "not_found"]]
           ELSE LET step  == steps[id][ord]
                    leave == requests[id]
                IN  posts' = [posts EXCEPT ![w] =
                       [post EXCEPT
                          !.pc = IF already_processed(leave, step)
                                    \/ prior_exists(steps[id], step.order)
                                 THEN "refused" ELSE "loaded",
                          !.step_status =
                               IF action = "approve" THEN "approved"
                               ELSE IF action = "reject" THEN "rejected"
                               ELSE step.status,
                          !.leave_status =
                               IF action = "reject" THEN "rejected"
                               ELSE leave.status]]
    /\ UNCHANGED <<today, join_date, requests, steps, next_id, balances,
                   util, accounts, subject, outcome, segment, summary>>

\* views.py:657: step.save()
post_save_step(w) ==
    /\ posts[w].pc = "loaded"
    /\ steps' = [steps EXCEPT
                    ![posts[w].id][posts[w].order].status =
                        posts[w].step_status]
    /\ posts' = [posts EXCEPT ![w].pc =
                    IF posts[w].step_status = "approved"
                    THEN "step_saved" ELSE "checked"]
    /\ UNCHANGED <<today, join_date, requests, next_id, balances,
                   util, accounts, subject, outcome, segment, summary>>

\* views.py:659-662: the remaining_pending query
post_remaining_pending(w) ==
    /\ posts[w].pc = "step_saved"
    /\ posts' = [posts EXCEPT
                    ![w].pc = "checked",
                    ![w].leave_status =
                        IF remaining_pending(steps[posts[w].id])
                        THEN posts[w].leave_status
                        ELSE "approved"]
    /\ UNCHANGED <<today, join_date, requests, steps, next_id, balances,
                   util, accounts, subject, outcome, segment, summary>>

\* views.py:663: leave.save()
post_save_leave(w) ==
    /\ posts[w].pc = "checked"
    /\ requests' = [requests EXCEPT ![posts[w].id] =
                       LeaveRequest_save(
                           [@ EXCEPT !.status = posts[w].leave_status])]
    /\ posts' = [posts EXCEPT ![w].pc = "done"]
    /\ UNCHANGED <<today, join_date, steps, next_id, balances,
                   util, accounts, subject, outcome, segment, summary>>

\* the response is sent and the worker is free again
post_return(w) ==
    /\ posts[w].pc \in {"forbidden", "not_found", "refused", "done"}
    /\ posts' = [posts EXCEPT ![w] = NoPost]
    /\ UNCHANGED <<today, join_date, requests, steps, next_id, balances,
                   util, accounts, subject, outcome, segment, summary>>

\* the store the side-by-side specification starts from: a pending request
\* of the employee waiting for u2 and an approved half day
RaceRequests ==
    (1 :> [user |-> Employee, start_date |-> <<2023, 2, 15>>,
           end_date |-> <<2023, 2, 21>>, leave_type |-> "yeoncha",
           status |-> "pending", days |-> FloatDays(5)]
     @@ 2 :> [user |-> Employee, start_date |-> <<2023, 2, 15>>,
              end_date |-> <<2023, 2, 15>>, leave_type |-> "bancha",
              status |-> "approved", days |-> HalfDay])

RaceSteps ==
    (1 :> <<[approver |-> "u2", order |-> 1, status |-> "pending"]>>
     @@ 2 :> <<[approver |-> "u2", order |-> 1, status |-> "approved"]>>)

InitRace ==
    /\ today = <<2023, 2, 15>>
    /\ join_date = [u \in Users |->
                       IF u = Employee THEN <<2023, 1, 15>> ELSE NoDate]
    /\ requests = RaceRequests
    /\ steps = RaceSteps
    /\ next_id = 3
    /\ subject = "nobody"
    /\ outcome = "idle"
    /\ segment = NoSegment
    /\ summary = NoSummary
    /\ balances = DefaultBalances
    /\ util = NoCall
    /\ posts = NoPosts
    /\ accounts = DefaultAccounts

NextRace ==
    \/ \E u \in Users : summary_begin(u)
    \/ summary_query
    \/ \E w \in Workers, u \in Users, id \in 1..2, ord \in 1..3,
          action \in PostActions : post_load(w, u, id, ord, action)
    \/ \E w \in Workers : post_save_step(w)
    \/ \E w \in Workers : post_remaining_pending(w)
    \/ \E w \in Workers : post_save_leave(w)

\* one summary call and up to two POSTs of the approval view, interleaved
\* at their database statements
SpecRace == InitRace /\ [][NextRace]_vars

(***************************************************************************)
(* The approval view served by one worker: every POST runs from its first  *)
(* statement to its last before the next request is served                 *)
(***************************************************************************)
\* no POST is in flight
Quiet == \A w \in Workers : posts[w].pc = "idle"

NextSequential ==
    \/ \E form \in WorkflowForms : Quiet /\ leave_create(Employee, form)
    \/ \E u \in Users, id \in 1..MaxRequests, ord \in 1..3,
          action \in PostActions :
          Quiet /\ post_load("w1", u, id, ord, action)
    \/ post_save_step("w1")
    \/ post_remaining_pending("w1")
    \/ post_save_leave("w1")
    \/ post_return("w1")

\* leave_create and the POSTs of the approval view, one after the other
SpecSequential == InitWorkflow /\ [][NextSequential]_vars

(***************************************************************************)
(* The calendar utilities called directly, on inputs the summary facade    *)
(* never hands them                                                        *)
(***************************************************************************)
\* years, months and days from which the dates of direct calls are drawn
UtilYears == {2023, 2024}

UtilMonths == {1, 2, 3, 12}

UtilDates ==
    {d \in UtilYears \X UtilMonths \X HireDays : ValidDate(d)}

\* direct calls of _round_half_up take the values n / 100 for
\* n in -MaxHundredths .. MaxHundredths
MaxHundredths == 800

call_completed_months(start_date, limit_date) ==
    /\ util' = [fn |-> "completed_months", args |-> <<start_date, limit_date>>,
                result |-> completed_months(start_date, limit_date)]
    /\ UNCHANGED <<today, join_date, requests, steps, next_id,
                   subject, outcome, segment, summary, balances,
                   posts, accounts>>

call_round_half_up(num, den) ==
    /\ util' = [fn |-> "round_half_up", args |-> <<num, den>>,
                result |-> round_half_up(num, den)]
    /\ UNCHANGED <<today, join_date, requests, steps, next_id,
                   subject, outcome, segment, summary, balances,
                   posts, accounts>>

InitUtil ==
    /\ today = FirstDay
    /\ join_date = [u \in Users |-> NoDate]
    /\ requests = <<>>
    /\ steps = <<>>
    /\ next_id = 1
    /\ subject = "nobody"
    /\ outcome = "idle"
    /\ segment = NoSegment
    /\ summary = NoSummary
    /\ balances = DefaultBalances
    /\ util = NoCall
    /\ posts = NoPosts
    /\ accounts = DefaultAccounts

NextUtil ==
    \/ \E start_date \in UtilDates, limit_date \in UtilDates :
          call_completed_months(start_date, limit_date)
    \/ \E num \in (0 - MaxHundredths)..MaxHundredths :
          call_round_half_up(num, 100)

\* the pure calendar utilities over bounded inputs
SpecUtil == InitUtil /\ [][NextUtil]_vars

(***************************************************************************)
(* The dashboard of one employee loaded on every day from the hire date on *)
(***************************************************************************)
\* number of calendar years the daily dashboard is followed, the hire year
\* included
DailyYears == 5

\* hire dates of the daily specification
DailyHireYears == {2020, 2021, 2022}

DailyHires ==
    {d \in DailyHireYears \X (1..12) \X HireDays : ValidDate(d)}

\* timezone.localdate() has moved on by one day when _leave_summary_for_user
\* is called for u again
next_day_summary(u) ==
    /\ outcome # "idle"
    /\ join_date[u] # NoDate
    /\ DateLT(today, <<join_date[u][1] + DailyYears - 1, 12, 31>>)
    /\ today' = PlusOneDay(today)
    /\ subject' = u
    /\ segment' = current_leave_segment(join_date[u], today')
    /\ IF segment' = RaisedSegment
       THEN /\ outcome' = "raised"
            /\ summary' = NoSummary
       ELSE /\ outcome' = "returned"
            /\ summary' = summary_dict(requests, u, join_date[u], today')
    /\ UNCHANGED <<join_date, requests, steps, next_id, balances, util,
                   posts, accounts>>

InitDaily ==
    /\ \E h \in DailyHires :
          /\ today = h
          /\ join_date = [u \in Users |-> IF u = Employee THEN h ELSE NoDate]
    /\ requests = <<>>
    /\ steps = <<>>
    /\ next_id = 1
    /\ subject = "nobody"
    /\ outcome = "idle"
    /\ segment = NoSegment
    /\ summary = NoSummary
    /\ balances = DefaultBalances
    /\ util = NoCall
    /\ posts = NoPosts
    /\ accounts = DefaultAccounts

NextDaily ==
    \/ leave_summary_for_user(Employee)
    \/ next_day_summary(Employee)

\* the summary of one employee on the hire date and on every day after it
SpecDaily == InitDaily /\ [][NextDaily]_vars

(***************************************************************************)
(* Users, groups and the staff flag (signals.py, views.py)                 *)
(***************************************************************************)
ADMIN_GROUP == ADMIN_GROUP_NAME

ROLE_GROUPS == {ADMIN_GROUP, "hyuga gyeoljaegwonja",
                "chuljang gyeoljaegwonja", "gyeongyeonggwanribu"}

\* the sets of groups one call adds, removes or selects
GroupChoices == {{ADMIN_GROUP}, {"hyuga gyeoljaegwonja"},
                 {ADMIN_GROUP, "hyuga gyeoljaegwonja"}}

\* mutant of ensure_staff_for_admin_group: the flag follows the membership
ensure_staff_following_group(user) ==
    [user EXCEPT !.is_staff = ADMIN_GROUP_NAME \in user.groups]

\* _ensure_staff_for_admin_group, with the save of update_fields is_staff
\* and the post_save it sends, which finds is_staff set
ensure_staff_for_admin_group(user) ==
    IF ADMIN_GROUP_NAME \in user.groups /\ ~user.is_staff
    THEN [user EXCEPT !.is_staff = TRUE]
    ELSE user

\* the call util records
Call(fn, args) == [fn |-> fn, args |-> args, result |-> 0]

\* a save of the user row with the flags the caller set on the instance,
\* and the post_save receiver ensure_staff_on_user_save
user_save(u, staff, superuser) ==
    /\ u \in DOMAIN accounts
    /\ accounts' = [accounts EXCEPT ![u] =
          ensure_staff_for_admin_group(
             [@ EXCEPT !.is_staff = staff, !.is_superuser = superuser])]
    /\ util' = Call("user_save", <<u, staff, superuser>>)
    /\ UNCHANGED <<today, join_date, requests, steps, next_id, balances,
                   posts, subject, outcome, segment, summary>>

\* user.groups.add(*gs) and the m2m_changed receiver on post_add
groups_add(u, gs) ==
    /\ u \in DOMAIN accounts
    /\ accounts' = [accounts EXCEPT ![u] =
          ensure_staff_for_admin_group([@ EXCEPT !.groups = @ \cup gs])]
    /\ util' = Call("groups_add", <<u, gs>>)
    /\ UNCHANGED <<today, join_date, requests, steps, next_id, balances,
                   posts, subject, outcome, segment, summary>>

\* user.groups.remove(*gs) and the m2m_changed receiver on post_remove
groups_remove(u, gs) ==
    /\ u \in DOMAIN accounts
    /\ accounts' = [accounts EXCEPT ![u] =
          ensure_staff_for_admin_group([@ EXCEPT !.groups = @ \ gs])]
    /\ util' = Call("groups_remove", <<u, gs>>)
    /\ UNCHANGED <<today, join_date, requests, steps, next_id, balances,
                   posts, subject, outcome, segment, summary>>

\* user.groups.clear() and the m2m_changed receiver on post_clear
groups_clear(u) ==
    /\ u \in DOMAIN accounts
    /\ accounts' = [accounts EXCEPT ![u] =
          ensure_staff_for_admin_group([@ EXCEPT !.groups = {}])]
    /\ util' = Call("groups_clear", <<u, {}>>)
    /\ UNCHANGED <<today, join_date, requests, steps, next_id, balances,
                   posts, subject, outcome, segment, summary>>

\* the POST branch of admin_role_management: the role groups are removed
\* from the target, then the selected ones are added
admin_role_management(actor, target, selected) ==
    /\ actor \in DOMAIN accounts
    /\ ADMIN_GROUP \in accounts[actor].groups
    /\ target \in DOMAIN accounts
    /\ LET removed == ensure_staff_for_admin_group(
                         [accounts[target] EXCEPT !.groups = @ \ ROLE_GROUPS])
           added   == IF selected # {}
                      THEN ensure_staff_for_admin_group(
                              [removed EXCEPT !.groups = @ \cup selected])
                      ELSE removed
       IN  accounts' = [accounts EXCEPT ![target] = added]
    /\ util' = Call("admin_role_management", <<target, selected>>)
    /\ UNCHANGED <<today, join_date, requests, steps, next_id, balances,
                   posts, subject, outcome, segment, summary>>

(***************************************************************************)
(* Passwords, signup and the management command ensure_default_admin       *)
(***************************************************************************)
\* a password column is rewritten at most this many times
MaxPasswordChanges == 3

\* mutant of check_password: the stored hash never matches
check_password_never(user, raw_password) == FALSE

\* user.check_password(raw_password); an unset password matches nothing
check_password(user, raw_password) ==
    user.password.plain # "" /\ user.password.plain = raw_password

\* user.set_password(raw_password): a hash with a salt not used before
set_password(user, raw_password) ==
    [user EXCEPT !.password = [plain |-> raw_password, salt |-> @.salt + 1]]

\* the join date and the e-mail address the signup form is filled with
SignupJoinDate == <<2023, 1, 15>>

SignupEmail == "user@kuh"

\* the POST branch of signup with a valid form: the first user to sign up
\* while there is no superuser is made superuser, staff and admin
signup(name, raw_password) ==
    /\ name \in Users \ DOMAIN accounts
    /\ LET created == set_password([PlainAccount EXCEPT !.email = SignupEmail],
                                   raw_password)
           first   == ~\E v \in DOMAIN accounts : accounts[v].is_superuser
           granted == IF first
                      THEN ensure_staff_for_admin_group(
                              [created EXCEPT !.is_superuser = TRUE,
                                              !.is_staff = TRUE,
                                              !.groups = @ \cup {ADMIN_GROUP}])
                      ELSE created
       IN  accounts' = accounts @@ (name :> granted)
    /\ balances' = balances @@ (name :> DefaultBalance)
    /\ join_date' = [join_date EXCEPT ![name] = SignupJoinDate]
    /\ util' = Call("signup", <<name>>)
    /\ UNCHANGED <<today, requests, steps, next_id,
                   posts, subject, outcome, segment, summary>>

\* the temporary password get_random_string hands out
TemporaryPassword == "temp"

\* the POST branch of password_reset_request for a user that is found
password_reset_request(u) ==
    /\ u \in DOMAIN accounts
    /\ accounts[u].email # ""
    /\ accounts[u].password.salt < MaxPasswordChanges
    /\ accounts' = [accounts EXCEPT ![u] =
          ensure_staff_for_admin_group(set_password(@, TemporaryPassword))]
    /\ util' = Call("password_reset_request", <<u>>)
    /\ UNCHANGED <<today, join_date, requests, steps, next_id, balances,
                   posts, subject, outcome, segment, summary>>

\* os.environ.get of a variable that is not set
Unset == "<unset>"

\* "not value" of an environment variable that is unset or empty
EnvMissing(value) == value \in {Unset, ""}

\* the environments the command is run in
Environments ==
    [DEFAULT_ADMIN_USERNAME : {Unset, "admin"},
     DEFAULT_ADMIN_PASSWORD : {Unset, "pw1", "pw2"},
     DEFAULT_ADMIN_EMAIL : {Unset, "admin@kuh"}]

\* Command.handle of ensure_default_admin
ensure_default_admin(env) ==
    LET username == env.DEFAULT_ADMIN_USERNAME
        password == env.DEFAULT_ADMIN_PASSWORD
        email    == IF env.DEFAULT_ADMIN_EMAIL = Unset
                    THEN "" ELSE env.DEFAULT_ADMIN_EMAIL
    IN  /\ IF EnvMissing(username) \/ EnvMissing(password)
           THEN UNCHANGED <<accounts, balances>>
           ELSE IF username \notin DOMAIN accounts
           THEN /\ accounts' = accounts @@ (username :>
                      ensure_staff_for_admin_group(
                         set_password([PlainAccount EXCEPT
                                          !.email = email,
                                          !.is_staff = TRUE,
                                          !.is_superuser = TRUE],
                                      password)))
                /\ balances' = balances @@ (username :> DefaultBalance)
           ELSE LET user   == accounts[username]
                    mailed == IF email # "" /\ user.email # email
                              THEN [user EXCEPT !.email = email] ELSE user
                    staff  == IF ~mailed.is_staff
                              THEN [mailed EXCEPT !.is_staff = TRUE]
                              ELSE mailed
                    super  == IF ~staff.is_superuser
                              THEN [staff EXCEPT !.is_superuser = TRUE]
                              ELSE staff
                    keyed  == IF ~check_password(super, password)
                              THEN set_password(super, password) ELSE super
                    updated == keyed # user
                IN  /\ keyed.password.salt <= MaxPasswordChanges
                    /\ accounts' = [accounts EXCEPT ![username] =
                          IF updated THEN ensure_staff_for_admin_group(keyed)
                          ELSE user]
                    /\ UNCHANGED balances
        /\ util' = Call("ensure_default_admin", <<env>>)
        /\ UNCHANGED <<today, join_date, requests, steps, next_id,
                       posts, subject, outcome, segment, summary>>

\* nobody has signed up yet
NoAccounts == [u \in {} |-> PlainAccount]

NoBalances == [u \in {} |-> DefaultBalance]

InitAccounts ==
    /\ today = FirstDay
    /\ join_date = [u \in Users |-> NoDate]
    /\ requests = <<>>
    /\ steps = <<>>
    /\ next_id = 1
    /\ subject = "nobody"
    /\ outcome = "idle"
    /\ segment = NoSegment
    /\ summary = NoSummary
    /\ balances = NoBalances
    /\ util = NoCall
    /\ posts = NoPosts
    /\ accounts = NoAccounts

NextGroups ==
    \/ \E name \in Users : signup(name, "pw1")
    \/ \E u \in Users, staff \in BOOLEAN, superuser \in BOOLEAN :
          user_save(u, staff, superuser)
    \/ \E u \in Users, gs \in GroupChoices : groups_add(u, gs)
    \/ \E u \in Users, gs \in GroupChoices : groups_remove(u, gs)
    \/ \E u \in Users : groups_clear(u)
    \/ \E actor \in Users, target \in Users,
          selected \in GroupChoices \cup {{}} :
          admin_role_management(actor, target, selected)

\* users, their groups and the staff flag under the signal receivers
SpecGroups == InitAccounts /\ [][NextGroups]_vars

NextAdmin ==
    \/ signup(Employee, "pw1")
    \/ \E u \in {Employee, "admin"}, staff \in BOOLEAN,
          superuser \in BOOLEAN : user_save(u, staff, superuser)
    \/ \E u \in {Employee, "admin"} : password_reset_request(u)
    \/ \E env \in Environments : ensure_default_admin(env)

\* the management command among signups, saves and password resets
SpecAdmin == InitAccounts /\ [][NextAdmin]_vars

(***************************************************************************)
(* LeaveBalance.remaining_leave read on stored rows                        *)
(***************************************************************************)
\* the values of total_leave the rows are drawn from, in days
BalanceTotals == {0, 15, 30}

\* used_leave of the rows runs up to this many days, in steps of half a day
MaxUsedLeave == 35

BalanceRows ==
    {[total_leave |-> FloatDays(t), used_leave |-> h] :
        t \in BalanceTotals, h \in 0..FloatDays(MaxUsedLeave)}

\* mutant of remaining_leave: a negative remainder is shown as zero
remaining_leave_clamped(balance) ==
    Max(balance.total_leave - balance.used_leave, 0)

\* the property LeaveBalance.remaining_leave, in half days
remaining_leave(balance) == balance.total_leave - balance.used_leave

call_remaining_leave(u) ==
    /\ u \in DOMAIN balances
    /\ util' = [fn |-> "remaining_leave",
                args |-> <<balances[u].total_leave, balances[u].used_leave>>,
                result |-> remaining_leave(balances[u])]
    /\ UNCHANGED <<today, join_date, requests, steps, next_id,
                   subject, outcome, segment, summary, balances,
                   posts, accounts>>

InitBalance ==
    /\ today = FirstDay
    /\ join_date = [u \in Users |-> NoDate]
    /\ requests = <<>>
    /\ steps = <<>>
    /\ next_id = 1
    /\ subject = "nobody"
    /\ outcome = "idle"
    /\ segment = NoSegment
    /\ summary = NoSummary
    /\ \E row \in BalanceRows :
          balances = [u \in Users |->
                         IF u = Employee THEN row ELSE DefaultBalance]
    /\ util = NoCall
    /\ posts = NoPosts
    /\ accounts = DefaultAccounts

NextBalance == \E u \in Users : call_remaining_leave(u)

\* the remaining_leave property over bounded LeaveBalance rows
SpecBalance == InitBalance /\ [][NextBalance]_vars

(***************************************************************************)
(* Properties.  A summary call has acted when outcome is not "idle"; Hire  *)
(* is then the hire date it read and today the reference date.             *)
(***************************************************************************)
Called == outcome # "idle"

Returned == outcome = "returned"

Hire == join_date[subject]

HireReached == Hire # NoDate /\ DateLE(Hire, today)

SegmentKinds == {"year1_monthly", "year2_partial_monthly",
                 "year3_prorated_calendar", "annual"}

\* the first anniversary of h, the day clamped to the month's last day
Anniversary(h) == <<h[1] + 1, h[2], Min(h[3], DaysInMonth(h[1] + 1, h[2]))>>

\* C1: the resolver returns no segment exactly when the hire date is unset
\* or later than the reference date, and for every hire date on or before
\* the reference date it returns a segment of one of the four kinds.
C1_SegmentExactlyWhenHired ==
    Called =>
       /\ (segment = NoSegment) <=> ~HireReached
       /\ HireReached => segment.type \in SegmentKinds

\* C2: with A the first anniversary of the hire date h <= t, the segment is
\* year one [h, A - 1 day] while t <= A - 1 day, year two [A, Dec 31 of
\* A.year] while t is in A's year, year three [Jan 1, Dec 31] in the year
\* after A's, and annual [Jan 1, Dec 31] of t's year in every later year.
C2_SegmentWindows ==
    (Called /\ HireReached) =>
       LET A == Anniversary(Hire)
           t == today
       IN  /\ DateLT(t, A) =>
                 /\ segment.type = "year1_monthly"
                 /\ segment.start = Hire
                 /\ segment.end = MinusOneDay(A)
           /\ (DateLE(A, t) /\ t[1] = A[1]) =>
                 /\ segment.type = "year2_partial_monthly"
                 /\ segment.start = A
                 /\ segment.end = <<A[1], 12, 31>>
           /\ t[1] = A[1] + 1 =>
                 /\ segment.type = "year3_prorated_calendar"
                 /\ segment.start = <<A[1] + 1, 1, 1>>
                 /\ segment.end = <<A[1] + 1, 12, 31>>
           /\ t[1] > A[1] + 1 =>
                 /\ segment.type = "annual"
                 /\ segment.start = <<t[1], 1, 1>>
                 /\ segment.end = <<t[1], 12, 31>>

\* C3: every segment the resolver returns contains the reference date,
\* windowStart <= t <= windowEnd, so the summary's reset date is never
\* earlier than the reference date.
C3_WindowContainsToday ==
    (Returned /\ segment # NoSegment) =>
       /\ DateLE(segment.start, today)
       /\ DateLE(today, segment.end)
       /\ DateLE(segment.start, segment.end)
       /\ DateLE(today, summary.reset_date)

\* a year-two segment resolved on the last day of its window
C3_Witness ==
    /\ Returned
    /\ segment.type = "year2_partial_monthly"
    /\ today = segment.end
    /\ summary.reset_date = today

\* months k >= 1 after the month of s whose day s[3] is reached by limit
MonthsReached(s, limit) ==
    Cardinality({k \in 1..24 :
        LET target == s[1] * 12 + s[2] + k
            have   == limit[1] * 12 + limit[2]
        IN  target < have \/ (target = have /\ limit[3] >= s[3])})

\* C4: in a year-one or year-two segment, earned leave is one day per
\* completed month from the window start to min(today, window end), a month
\* counting once the day of the month reaches the window start's day; hire
\* 2023-01-15 gives 0 on 2023-02-14 and 1 on 2023-02-15.
C4_MonthlyEarned ==
    (Returned /\ segment.type \in {"year1_monthly", "year2_partial_monthly"}) =>
       /\ summary.earned
             = MonthsReached(segment.start, DateMin(today, segment.end))
       /\ (Hire = <<2023, 1, 15>> /\ today = <<2023, 2, 14>>)
             => summary.earned = 0
       /\ (Hire = <<2023, 1, 15>> /\ today = <<2023, 2, 15>>)
             => summary.earned = 1

\* hire 2023-01-15 on 2023-02-15: the first month is complete
C4_Witness ==
    /\ Returned
    /\ Hire = <<2023, 1, 15>>
    /\ today = <<2023, 2, 15>>
    /\ segment.type = "year1_monthly"
    /\ summary.earned = 1

\* the day's number within its calendar year, Jan 1 being 1
DayOfYear(d) == DaysBeforeMonth(d[1], d[2]) + d[3]

\* C5: in a year-three segment, earned leave is floor(n * 15 / 365 + 1/2)
\* with n the number of days from Jan 1 to today inclusive; the divisor is
\* 365 in leap years too; day 182 of the year gives 7.
C5_ProratedEarned ==
    (Returned /\ segment.type = "year3_prorated_calendar") =>
       LET n == DayOfYear(today)
       IN  /\ summary.earned = (30 * n + 365) \div 730
           /\ n = 182 => summary.earned = 7

\* Dec 31 of a leap year-three: 366 days employed round to 15
C5_Witness ==
    /\ Returned
    /\ segment.type = "year3_prorated_calendar"
    /\ IsLeap(today[1])
    /\ today[2] = 12 /\ today[3] = 31
    /\ summary.earned = 15

\* C6: in an annual segment, earned leave is 15 + (serviceYear - 3) with
\* serviceYear = (today.year - hireDate.year) + 1 on every day of the
\* calendar year; hire 2015-06-01 gives 22 on every day of 2024.
C6_AnnualEarned ==
    (Returned /\ segment.type = "annual") =>
       /\ summary.earned = 15 + (((today[1] - Hire[1]) + 1) - 3)
       /\ (Hire = <<2015, 6, 1>> /\ today[1] = 2024) => summary.earned = 22

\* hire 2015-06-01 on 2024-01-01, before the year's anniversary
C6_Witness ==
    /\ Returned
    /\ Hire = <<2015, 6, 1>>
    /\ today = <<2024, 1, 1>>
    /\ segment.type = "annual"
    /\ summary.earned = 22

\* what row i of the store adds to the used leave of owner u in segment sg
Counted(i, u, sg) ==
    IF /\ i \in DOMAIN requests
       /\ requests[i].user = u
       /\ requests[i].status = "approved"
       /\ ~DateLT(requests[i].start_date, sg.start)
       /\ ~DateLT(sg.end, requests[i].start_date)
       /\ requests[i].days # NoDays
    THEN requests[i].days
    ELSE 0

RECURSIVE CountedUpTo(_, _, _)
CountedUpTo(n, u, sg) ==
    IF n < 0 THEN 0 ELSE Counted(n, u, sg) + CountedUpTo(n - 1, u, sg)

\* C7: used leave is the sum of the day counts of exactly the owner's
\* approved requests whose start date lies in [windowStart, windowEnd]: the
\* end date plays no part, pending and rejected requests and requests with
\* unset day count add 0, and with no segment the result is 0.
C7_UsedLeave ==
    Returned =>
       summary.used = IF segment = NoSegment THEN 0
                      ELSE CountedUpTo(next_id, subject, segment)

\* an approved request that starts in the window and ends after it is
\* counted whole, next to an approved request of the owner with unset days
C7_Witness ==
    /\ Returned
    /\ segment # NoSegment
    /\ \E i, j \in DOMAIN requests :
          /\ requests[i].user = subject
          /\ requests[i].status = "approved"
          /\ DateLE(requests[i].start_date, segment.end)
          /\ DateLT(segment.end, requests[i].end_date)
          /\ requests[j].user = subject
          /\ requests[j].status = "approved"
          /\ requests[j].days = NoDays
          /\ summary.used = requests[i].days
          /\ summary.used > 0

\* C8: the summary's remaining is earned - used with no clamping, so it is
\* negative whenever the used leave exceeds the earned leave.
C8_RemainingExact ==
    Returned =>
       /\ summary.remaining = FloatDays(summary.earned) - summary.used
       /\ summary.used > FloatDays(summary.earned) => summary.remaining < 0

\* more approved leave in the window than earned
C8_Witness ==
    /\ Returned
    /\ summary.earned > 0
    /\ summary.used > FloatDays(summary.earned)
    /\ summary.remaining < 0

\* C9: when the hire date is unset or later than the reference date the
\* summary has earned, used, remaining and usage rate 0 and no reset date,
\* whatever approved requests the employee has.
C9_NoHireAllZero ==
    (Called /\ ~HireReached) =>
       /\ Returned
       /\ summary.earned = 0
       /\ summary.used = 0
       /\ summary.remaining = 0
       /\ summary.usage_rate[1] = 0
       /\ summary.reset_date = NoDate

\* a hire date in the future and an approved request of that employee
C9_Witness ==
    /\ Returned
    /\ Hire # NoDate
    /\ DateLT(today, Hire)
    /\ \E i \in DOMAIN requests :
          /\ requests[i].user = subject
          /\ requests[i].status = "approved"
          /\ requests[i].days > 0
    /\ summary.used = 0

\* C10: for every valid hire date and reference date the summary facade
\* returns a summary; the resolver and the calculator never raise.
C10_NeverRaises ==
    Called => Returned

IsFeb29(d) == d[2] = 2 /\ d[3] = 29

\* C11: for a hire date of Feb 29 the first anniversary is Feb 28 of the
\* following year: the year-one window is [Feb 29, Feb 27 of the next year]
\* and the year-two window starts on Feb 28.
C11_Feb29Anniversary ==
    (Called /\ HireReached /\ IsFeb29(Hire)) =>
       /\ DateLT(today, <<Hire[1] + 1, 2, 28>>) =>
             /\ segment.type = "year1_monthly"
             /\ segment.start = Hire
             /\ segment.end = <<Hire[1] + 1, 2, 27>>
       /\ (DateLE(<<Hire[1] + 1, 2, 28>>, today) /\ today[1] = Hire[1] + 1) =>
             /\ segment.type = "year2_partial_monthly"
             /\ segment.start = <<Hire[1] + 1, 2, 28>>

\* today's month and day come before the hire date's month and day
BeforeAnniversaryInYear(h, t) ==
    t[2] < h[2] \/ (t[2] = h[2] /\ t[3] < h[3])

\* the service year the resolver used, read back from the annual grant
GrantServiceYear == (segment.annual_days - 15) + 3

\* C12 as stated: in an annual segment the service year that sizes the
\* grant, (today.year - hireDate.year) + 1, is the 1-based count of full
\* years since hire that _service_year computes.
C12_ServiceYearIsFullYears ==
    (Returned /\ segment.type = "annual") =>
       /\ GrantServiceYear = (today[1] - Hire[1]) + 1
       /\ GrantServiceYear = service_year(Hire, today)

\* C12 amended: the service year that sizes the grant is
\* (today.year - hireDate.year) + 1; it equals _service_year(hireDate, today)
\* from the hire date's month and day on, and is one more before that day.
C12_ServiceYearByCalendarYear ==
    (Returned /\ segment.type = "annual") =>
       /\ GrantServiceYear = (today[1] - Hire[1]) + 1
       /\ GrantServiceYear = service_year(Hire, today)
             + (IF BeforeAnniversaryInYear(Hire, today) THEN 1 ELSE 0)

\* an annual segment in the hire month, the day before the hire day
C12_Witness ==
    /\ Returned
    /\ segment.type = "annual"
    /\ today[2] = Hire[2]
    /\ today[3] = Hire[3] - 1
    /\ GrantServiceYear = service_year(Hire, today) + 1

\* C13: earned leave never exceeds 11 in a year-one segment and never
\* exceeds 12 in a year-two segment.
C13_MonthlyCaps ==
    Returned =>
       /\ segment.type = "year1_monthly" => summary.earned <= 11
       /\ segment.type = "year2_partial_monthly" => summary.earned <= 12

\* the last day of a year-one window that ends in the hire month: the
\* twelfth month is not complete
C13_Witness ==
    /\ Returned
    /\ segment.type = "year1_monthly"
    /\ today = segment.end
    /\ today[2] = Hire[2]
    /\ summary.earned = 11

\* C14: for every hire date, set or unset, and every reference date, earned
\* leave is a non-negative integer.
C14_EarnedNatural ==
    Called => (Returned /\ summary.earned \in Nat)

\* a direct call of the utility fn has returned
UtilCalled(fn) == util.fn = fn

C16_RoundHalfUp ==
    UtilCalled("round_half_up") =>
       LET num == util.args[1]
           den == util.args[2]
           r   == util.result
       IN  /\ 2 * r * den - den <= 2 * num
           /\ 2 * num < 2 * r * den + den
           /\ (num = 750 /\ den = 100) => r = 8
           /\ (num = 749 /\ den = 100) => r = 7
           /\ (num = -50 /\ den = 100) => r = 0
           /\ (num = 250 /\ den = 100) => r = 3

\* the negative half -0.5 rounds up to 0
C16_Witness ==
    /\ UtilCalled("round_half_up")
    /\ util.args = <<-50, 100>>
    /\ util.result = 0

\* C17: the usage rate is used / earned * 100 when earned > 0 and 0 when
\* earned = 0, also when used > 0 then; it is not capped at 100.
C17_UsageRate ==
    Returned =>
       LET rate == summary.usage_rate
       IN  /\ rate[2] > 0
           /\ IF summary.earned > 0
              THEN rate[1] * FloatDays(summary.earned)
                      = summary.used * 100 * rate[2]
              ELSE rate[1] = 0

\* nothing earned yet and approved leave in the window: the rate is 0
C17_Witness ==
    /\ Returned
    /\ segment # NoSegment
    /\ summary.earned = 0
    /\ summary.used > 0
    /\ summary.usage_rate[1] = 0

\* the Monday-to-Friday dates among the ordinals first..last
WeekdaysIn(first, last) ==
    Cardinality({o \in first..last : (o + 6) % 7 < 5})

\* C19: every saved request with both dates set has day count 0.5 when it
\* is a half day, whatever its dates, and otherwise the number of
\* Monday-to-Friday dates in [startDate, endDate], 0 when endDate <
\* startDate; the day count is never negative.
C19_DayCount ==
    \A i \in DOMAIN requests :
       LET r == requests[i]
       IN  (r.start_date # NoDate /\ r.end_date # NoDate /\ r.days # NoDays) =>
              /\ r.days >= 0
              /\ r.leave_type = "bancha" => r.days = HalfDay
              /\ r.leave_type # "bancha" =>
                    /\ r.days = FloatDays(WeekdaysIn(ToOrdinal(r.start_date),
                                                     ToOrdinal(r.end_date)))
                    /\ DateLT(r.end_date, r.start_date) => r.days = 0
                    /\ (r.start_date = <<2023, 2, 15>>
                           /\ r.end_date = <<2023, 2, 21>>)
                          => r.days = FloatDays(5)

\* a half day over three dates next to a request that ends before it starts
C19_Witness ==
    \E i, j \in DOMAIN requests :
       /\ requests[i].leave_type = "bancha"
       /\ DateLT(requests[i].start_date, requests[i].end_date)
       /\ requests[i].days = HalfDay
       /\ requests[j].leave_type # "bancha"
       /\ DateLT(requests[j].end_date, requests[j].start_date)
       /\ requests[j].days = 0

\* the requests that exist before and after a step
Kept == DOMAIN requests \cap DOMAIN requests'

CountedIn(store, i, u, first, last) ==
    IF /\ i \in DOMAIN store
       /\ store[i].user = u
       /\ store[i].status = "approved"
       /\ DateLE(first, store[i].start_date)
       /\ DateLE(store[i].start_date, last)
       /\ store[i].days # NoDays
    THEN store[i].days
    ELSE 0

\* the approved in-window sum of the employee over a table of two rows
ApprovedInWindow(store) ==
    CountedIn(store, 1, Employee, <<2023, 1, 15>>, <<2024, 1, 14>>)
       + CountedIn(store, 2, Employee, <<2023, 1, 15>>, <<2024, 1, 14>>)

\* the workers whose POST has written the request row
Writers == {w \in Workers : posts[w].pc = "done"}

\* C21: a summary computed side by side with one status write on a request
\* of the employee reports as used the approved in-window sum of the store
\* before that write or after it and no other value; earned and the reset
\* date are the same either way.
C21_UsedBeforeOrAfterWrite ==
    (Returned /\ subject = Employee /\ Cardinality(Writers) <= 1) =>
       /\ summary.used \in {ApprovedInWindow(RaceRequests),
                            ApprovedInWindow(requests)}
       /\ summary.earned = 1
       /\ summary.reset_date = <<2024, 1, 14>>

\* the summary that read before the approving write: it still reports the
\* half day while the store holds five days more
C21_Witness ==
    /\ Returned
    /\ subject = Employee
    /\ Cardinality(Writers) = 1
    /\ requests[1].status = "approved"
    /\ summary.used = HalfDay
    /\ ApprovedInWindow(requests) = FloatDays(5) + HalfDay

\* no POST is between its statements
Settled ==
    \A w \in Workers :
       posts[w].pc \in {"idle", "forbidden", "not_found", "refused", "done"}

\* C25: whatever the interleaving of an approving and a rejecting POST on
\* the same pending step, the stored state they leave never has the request
\* approved while one of its steps is rejected.
C25_NoApprovedWithRejectedStep ==
    Settled =>
       \A i \in DOMAIN requests :
          requests[i].status = "approved" =>
             \A k \in DOMAIN steps[i] : steps[i][k].status # "rejected"

\* C22: remaining_leave of a LeaveBalance is total_leave - used_leave, with
\* no clamping at zero; total 30 and used 5 give 25.
C22_RemainingLeave ==
    UtilCalled("remaining_leave") =>
       LET total_leave == util.args[1]
           used_leave  == util.args[2]
       IN  /\ util.result + used_leave = total_leave
           /\ (total_leave = FloatDays(30) /\ used_leave = FloatDays(5))
                 => util.result = FloatDays(25)
           /\ used_leave > total_leave => util.result < 0

\* a row that has used more than its total: the remainder is negative
C22_Witness ==
    /\ UtilCalled("remaining_leave")
    /\ util.args = <<FloatDays(15), FloatDays(20)>>
    /\ util.result = 0 - FloatDays(5)

\* the steps of request id below order k are all approved
LowerApproved(id, k) ==
    \A j \in DOMAIN steps[id] : j < k => steps[id][j].status = "approved"

\* a decided step has only approved steps below it
AscendingOrder ==
    \A id \in DOMAIN steps : \A k \in DOMAIN steps[id] :
       steps[id][k].status # "pending" => LowerApproved(id, k)

\* the POST that is past its guards and aims at step k of request id
Posting(w, id, k) ==
    /\ posts[w].pc \in {"loaded", "step_saved", "checked"}
    /\ posts[w].id = id
    /\ posts[w].order = k

C24_StatusMatchesSteps ==
    Quiet =>
       \A id \in DOMAIN requests :
          LET st       == steps[id]
              rejected == {k \in DOMAIN st : st[k].status = "rejected"}
              pending  == {k \in DOMAIN st : st[k].status = "pending"}
          IN  /\ requests[id].status = "approved" =>
                    \A k \in DOMAIN st : st[k].status = "approved"
              /\ requests[id].status = "rejected" =>
                    /\ Cardinality(rejected) = 1
                    /\ \A k \in rejected : LowerApproved(id, k)
              /\ (pending # {} /\ requests[id].status # "rejected") =>
                    requests[id].status = "pending"

\* a request rejected at its second step next to a request approved by its
\* only approver
C24_Witness ==
    /\ Quiet
    /\ \E a, b \in DOMAIN requests :
          /\ requests[a].status = "rejected"
          /\ Len(steps[a]) = 2
          /\ steps[a][1].status = "approved"
          /\ steps[a][2].status = "rejected"
          /\ requests[b].status = "approved"
          /\ Len(steps[b]) = 1

\* a step of the admin action: rows of the request table change while the
\* set of requests and their approval steps stay
AdminStep ==
    /\ requests' # requests
    /\ DOMAIN requests' = DOMAIN requests
    /\ steps' = steps

RECURSIVE NewlyApprovedDays(_, _)
\* the day counts of the requests of owner u among 1..n that the step
\* moves to approved
NewlyApprovedDays(u, n) ==
    IF n < 1 THEN 0
    ELSE NewlyApprovedDays(u, n - 1)
         + (IF /\ n \in Kept
               /\ requests[n].user = u
               /\ requests[n].status # "approved"
               /\ requests'[n].status = "approved"
               /\ requests'[n].days # NoDays
            THEN requests'[n].days ELSE 0)

\* C26: approve_leaves adds a request's day count to its owner's used_leave
\* at most once: a balance only changes in a step of the action, by the day
\* counts of the requests the step moves to approved; a request that is
\* already approved and the balance are left as they are, and running the
\* action again on the same selection changes nothing.
C26_AddedOnce ==
    [][/\ balances' # balances => AdminStep
       /\ AdminStep =>
             \A u \in Users :
                balances'[u].used_leave =
                   balances[u].used_leave + NewlyApprovedDays(u, next_id)
       /\ \A i \in Kept :
             requests[i].status = "approved" => requests'[i] = requests[i]
       /\ AdminStep =>
             \A queryset \in SUBSET (DOMAIN requests) :
                approve_each(queryset, requests, balances)
                      = <<requests', balances'>>
                   => approve_each(queryset, requests', balances')
                         = <<requests', balances'>>]_vars

\* the action approved a request over its pending steps, next to a request
\* the approval view approved: the five days are booked once, the half day
\* not at all
C26_Witness ==
    /\ balances[Employee].used_leave = FloatDays(5)
    /\ \E i, j \in DOMAIN requests :
          /\ i # j
          /\ requests[i].status = "approved"
          /\ requests[i].days = FloatDays(5)
          /\ \E k \in DOMAIN steps[i] : steps[i][k].status = "pending"
          /\ requests[j].status = "approved"
          /\ requests[j].days = HalfDay
          /\ \A k \in DOMAIN steps[j] : steps[j][k].status = "approved"

\* the place of a segment kind in the order of the four kinds
KindRank(type) ==
    CASE type = "year1_monthly"           -> 1
      [] type = "year2_partial_monthly"   -> 2
      [] type = "year3_prorated_calendar" -> 3
      [] type = "annual"                  -> 4
      [] OTHER                            -> 0

\* the step resolves the segment of the day after today
NextDay == outcome # "idle" /\ today' = PlusOneDay(today)

\* the segment resolved after the step has the window of the one before
SameWindow ==
    /\ segment'.type = segment.type
    /\ segment'.start = segment.start
    /\ segment'.end = segment.end

\* C27: as the reference date advances day by day from the hire date, a
\* segment is resolved on every day, its kind goes through year-one,
\* year-two, year-three, annual in that order without skipping or going
\* back, and each new window starts on the day after the window before it
\* ends, so the windows cover every date from the hire date on with no gap
\* and no overlap.
C27_SegmentSequence ==
    /\ [](Called =>
            /\ Returned
            /\ segment.type \in SegmentKinds
            /\ today = Hire =>
                  segment.type = "year1_monthly" /\ segment.start = Hire)
    /\ [][NextDay =>
            /\ outcome = "returned" /\ outcome' = "returned"
            /\ IF DateLE(today', segment.end)
               THEN SameWindow
               ELSE /\ today = segment.end
                    /\ segment'.start = today'
                    /\ KindRank(segment'.type)
                          = Min(KindRank(segment.type) + 1, 4)]_vars

\* C28: for a fixed hire date, while the reference date advances within one
\* segment window earned leave never decreases; it is exactly 11 on the
\* last day of the year-one window, exactly 15 on Dec 31 of the year-three
\* window, leap year or not, and the first annual grant is 16.
C28_EarnedWithinWindow ==
    /\ [](Returned =>
            /\ (segment.type = "year1_monthly" /\ today = segment.end)
                  => summary.earned = 11
            /\ (segment.type = "year3_prorated_calendar"
                   /\ today = <<today[1], 12, 31>>)
                  => summary.earned = 15
            /\ (segment.type = "annual" /\ today[1] = Hire[1] + 3)
                  => summary.earned = 16)
    /\ [][(NextDay /\ outcome = "returned" /\ outcome' = "returned"
              /\ SameWindow)
             => summary'.earned >= summary.earned]_vars

\* Dec 31 of a year-three window of 366 days
C28_Witness ==
    /\ Returned
    /\ segment.type = "year3_prorated_calendar"
    /\ IsLeap(today[1])
    /\ today = segment.end
    /\ DaysBetween(today, segment.start) + 1 = 366
    /\ summary.earned = 15

\* the users that exist before and after a step
KeptUsers == DOMAIN accounts \cap DOMAIN accounts'

GroupCalls == {"groups_add", "groups_remove", "groups_clear",
               "admin_role_management"}

\* C29: after any sequence of user saves and group additions, removals or
\* clears, every member of the admin group has is_staff set; the receivers
\* never clear is_staff: a group change leaves a set flag set, a removal
\* from the admin group included, and a save keeps the flag it was given.
C29_AdminGroupIsStaff ==
    /\ [](\A u \in DOMAIN accounts :
             ADMIN_GROUP_NAME \in accounts[u].groups => accounts[u].is_staff)
    /\ [][\A u \in KeptUsers :
             /\ (util'.fn \in GroupCalls /\ accounts[u].is_staff)
                   => accounts'[u].is_staff
             /\ (util'.fn = "user_save" /\ util'.args[1] = u
                    /\ util'.args[2])
                   => accounts'[u].is_staff]_vars

\* a user who is not superuser has just been removed from the admin group
\* and is still staff
C29_Witness ==
    /\ util.fn = "groups_remove"
    /\ ADMIN_GROUP_NAME \in util.args[2]
    /\ LET u == util.args[1]
       IN  /\ ADMIN_GROUP_NAME \notin accounts[u].groups
           /\ accounts[u].is_staff
           /\ ~accounts[u].is_superuser

\* the environment of the last run of ensure_default_admin
LastEnv == util.args[1]

\* both DEFAULT_ADMIN_USERNAME and DEFAULT_ADMIN_PASSWORD are set
BothSet(env) ==
    /\ env.DEFAULT_ADMIN_USERNAME \notin {Unset, ""}
    /\ env.DEFAULT_ADMIN_PASSWORD \notin {Unset, ""}

\* C30: ensure_default_admin changes nothing when DEFAULT_ADMIN_USERNAME or
\* DEFAULT_ADMIN_PASSWORD is unset; when both are set, after it runs a user
\* of that name exists with is_staff and is_superuser set and with the
\* given password, whether or not it existed before, and a second run in
\* the same environment leaves the stored user as it is.
C30_DefaultAdmin ==
    /\ []((util.fn = "ensure_default_admin" /\ BothSet(LastEnv)) =>
             LET name == LastEnv.DEFAULT_ADMIN_USERNAME
             IN  /\ name \in DOMAIN accounts
                 /\ accounts[name].is_staff
                 /\ accounts[name].is_superuser
                 /\ accounts[name].password.plain
                       = LastEnv.DEFAULT_ADMIN_PASSWORD)
    /\ [][util'.fn = "ensure_default_admin" =>
             /\ ~BothSet(util'.args[1]) =>
                   accounts' = accounts /\ balances' = balances
             /\ (util.fn = "ensure_default_admin" /\ util.args = util'.args)
                   => accounts' = accounts]_vars

\* the command has given an admin that existed with another password the
\* password of its environment
C30_Witness ==
    /\ util.fn = "ensure_default_admin"
    /\ BothSet(LastEnv)
    /\ LastEnv.DEFAULT_ADMIN_PASSWORD = "pw2"
    /\ accounts["admin"].password = [plain |-> "pw2", salt |-> 2]
    /\ accounts["admin"].is_staff
    /\ accounts["admin"].is_superuser

====
